---- MODULE Spec2Model ----
(***************************************************************************)
(* A model of the sorted_vec crate (src/src/lib.rs): SortedVec<T>, a Vec   *)
(* that is sorted when it is constructed and is read-only afterwards.      *)
(*                                                                         *)
(* T is modelled by the integers 0..MaxVal with their usual order.  One    *)
(* container `c` is followed through its life: it is constructed by one of *)
(* the construction paths (or decoded), read any number of times, and      *)
(* finally consumed by by-value iteration.  The caller makes one call at a *)
(* time: a call leaves its result in the ret* variables, and the caller    *)
(* takes the result before it makes the next call.  The binary operations  *)
(* (==, cmp) take a second container `other` as their operand; the operand *)
(* is itself built by a construction path from an input `y`.               *)
(***************************************************************************)
EXTENDS Naturals, Sequences, FiniteSets

\* Longest input sequence handed to a constructor.
MaxLen == 3
\* Largest element value: T is 0..MaxVal.
MaxVal == 2

Values == 0..MaxVal
Inputs == UNION {[1..n -> Values] : n \in 0..MaxLen}
Sets == SUBSET Values
\* usize positions tried by indexed access: some inside, some past the end.
Positions == 0..(MaxLen + 1)

VARIABLES
    c,          \* the container: a record with the single field v
    live,       \* the caller holds the container (it is built and not yet consumed)
    origin,     \* the construction path that produced c, "none" before the first one
    items,      \* the sequence handed to the construction path (payload for decode)
    sset,       \* the BTreeSet handed to From<BTreeSet<T>>
    op,         \* the call that has just returned, "none" between calls
    lastIterRef,\* <<s>> once the caller has taken s from a by-reference iteration of c
    idx,        \* the position passed to the last index call
    other,      \* the right-hand operand of the last == or cmp
    y,          \* the input the operand was built from
    otherPath,  \* the construction path the operand was built by
    retSeq,     \* sequence-valued result: slice, iteration, encoding, hash stream
    retNat,     \* usize / T result, <<>> when nothing was returned
    retBool,    \* bool result
    retOrd,     \* Ordering result
    panicked    \* the last operation ended in a panic

vars == <<c, live, origin, items, sset, op, lastIterRef, idx, other, y, otherPath,
          retSeq, retNat, retBool, retOrd, panicked>>

----------------------------------------------------------------------------
(* Library functions the crate calls.                                      *)

\* Vec::from_iter: push the iterator's items, in iteration order.
RECURSIVE Vec_from_iter_acc(_, _)
Vec_from_iter_acc(iter, acc) ==
    IF iter = <<>> THEN acc
    ELSE Vec_from_iter_acc(Tail(iter), Append(acc, Head(iter)))

Vec_from_iter(iter) == Vec_from_iter_acc(iter, <<>>)

\* One step of the insertion sort that slice::sort runs on short slices:
\* the element x moves left past every element strictly greater than it.
\* Variant: an element equal to its left neighbour is dropped (a set-like sort).
RECURSIVE insert_tail_dedup(_, _)
insert_tail_dedup(s, x) ==
    IF s = <<>> THEN <<x>>
    ELSE IF x < s[Len(s)]
         THEN Append(insert_tail_dedup(SubSeq(s, 1, Len(s) - 1), x), s[Len(s)])
         ELSE IF x = s[Len(s)] THEN s ELSE Append(s, x)

RECURSIVE insert_tail(_, _)
insert_tail(s, x) ==
    IF s = <<>> THEN <<x>>
    ELSE IF x < s[Len(s)]
         THEN Append(insert_tail(SubSeq(s, 1, Len(s) - 1), x), s[Len(s)])
         ELSE Append(s, x)

RECURSIVE sort_acc(_, _)
sort_acc(done, rest) ==
    IF rest = <<>> THEN done
    ELSE sort_acc(insert_tail(done, Head(rest)), Tail(rest))

\* Variant: the sort is left out.
sort_skipped(v) == v

\* v.sort()
sort(v) == sort_acc(<<>>, v)

\* Variant: the traversal runs from the largest element down.
RECURSIVE BTreeSet_into_iter_rev(_)
BTreeSet_into_iter_rev(t) ==
    IF t = {} THEN <<>>
    ELSE LET m == CHOOSE a \in t : \A b \in t : a >= b
         IN <<m>> \o BTreeSet_into_iter_rev(t \ {m})

\* BTreeSet::into_iter: the in-order traversal, ascending.
RECURSIVE BTreeSet_into_iter(_)
BTreeSet_into_iter(t) ==
    IF t = {} THEN <<>>
    ELSE LET m == CHOOSE a \in t : \A b \in t : a <= b
         IN <<m>> \o BTreeSet_into_iter(t \ {m})

----------------------------------------------------------------------------
(* The crate's functions.                                                  *)

\* SortedVec::new
new == [v |-> <<>>]

\* derive(Default): the default of every field
default == [v |-> <<>>]

\* FromIterator::from_iter
from_iter(iter) == [v |-> sort(Vec_from_iter(iter))]

\* Variant: the owned sequence is wrapped as it is.
from_Vec_unsorted(v) == [v |-> v]

\* From<Vec<T>>::from
from_Vec(v) == [v |-> sort(v)]

\* From<BTreeSet<T>>::from
from_BTreeSet(t) == [v |-> sort(Vec_from_iter(BTreeSet_into_iter(t)))]

as_slice(self) == self.v

len(self) == Len(self.v)

\* Variant: the test is inverted.
is_empty_inverted(self) == Len(self.v) # 0

is_empty(self) == Len(self.v) = 0

deref(self) == self.v

\* IntoIterator for SortedVec<T>: vec::IntoIter yields front to back.
into_iter(self) == [i \in 1..Len(self.v) |-> self.v[i]]

\* IntoIterator for &SortedVec<T>: slice::Iter yields front to back.
into_iter_ref(self) == [i \in 1..Len(self.v) |-> self.v[i]]

\* Variant: a position past the end is clamped to the last element.
index_clamped(self, i) ==
    IF i < Len(self.v)
    THEN [panic |-> FALSE, val |-> <<self.v[i + 1]>>]
    ELSE IF Len(self.v) > 0
         THEN [panic |-> FALSE, val |-> <<self.v[Len(self.v)]>>]
         ELSE [panic |-> TRUE, val |-> <<>>]

\* Index<usize>::index delegates to Vec's index, which panics out of bounds.
index(self, i) ==
    IF i < Len(self.v)
    THEN [panic |-> FALSE, val |-> <<self.v[i + 1]>>]
    ELSE [panic |-> TRUE, val |-> <<>>]

\* Variant: only the lengths are compared.
eq_len_only(a, b) == Len(a.v) = Len(b.v)

\* derive(PartialEq, Eq): field by field; Vec compares length, then elements.
eq(a, b) ==
    /\ Len(a.v) = Len(b.v)
    /\ \A i \in 1..Len(a.v) : a.v[i] = b.v[i]

\* derive(PartialOrd, Ord): field by field; slices compare the common prefix
\* element by element and then the lengths.
RECURSIVE cmp_from(_, _, _)
cmp_from(l, r, i) ==
    IF i > Len(l) \/ i > Len(r)
    THEN IF Len(l) < Len(r) THEN "Less"
         ELSE IF Len(l) > Len(r) THEN "Greater" ELSE "Equal"
    ELSE IF l[i] < r[i] THEN "Less"
         ELSE IF l[i] > r[i] THEN "Greater"
         ELSE cmp_from(l, r, i + 1)

\* Variant: the shorter sequence is the smaller one, whatever it holds.
cmp_len_first(a, b) ==
    IF Len(a.v) < Len(b.v) THEN "Less"
    ELSE IF Len(a.v) > Len(b.v) THEN "Greater"
    ELSE cmp_from(a.v, b.v, 1)

cmp(a, b) == cmp_from(a.v, b.v, 1)

\* derive(Hash): the words written to the Hasher: the length prefix of the
\* Vec, then each element.
hash(self) == <<Len(self.v)>> \o self.v

\* derive(RustcEncodable): the struct's one field, emitted as a sequence
\* (emit_seq with the length, then emit_seq_elt per element).
encode(self) == [len |-> Len(self.v), elts |-> self.v]

\* Variant: the decoded elements are sorted before they are wrapped.
decode_sorting(d) == [v |-> sort([i \in 1..d.len |-> d.elts[i]])]

\* derive(RustcDecodable): read_seq reads the length and then that many
\* elements into a Vec, which becomes the field v as it is.
decode(d) == [v |-> [i \in 1..d.len |-> d.elts[i]]]

\* The encoded payloads a decoder can be handed.
Payloads == {[len |-> Len(s), elts |-> s] : s \in Inputs}

----------------------------------------------------------------------------
(* The state machine.                                                      *)

\* What the operation hands back to its caller.
Returns(sq, nt, bl, od, pn) ==
    /\ retSeq' = sq
    /\ retNat' = nt
    /\ retBool' = bl
    /\ retOrd' = od
    /\ panicked' = pn

NoResult == Returns(<<>>, <<>>, FALSE, "none", FALSE)

NoOperand ==
    /\ other' = new
    /\ y' = <<>>
    /\ otherPath' = "none"

Init ==
    /\ c = new
    /\ live = FALSE
    /\ origin = "none"
    /\ items = <<>>
    /\ sset = {}
    /\ op = "none"
    /\ lastIterRef = <<>>
    /\ idx = 0
    /\ other = new
    /\ y = <<>>
    /\ otherPath = "none"
    /\ retSeq = <<>>
    /\ retNat = <<>>
    /\ retBool = FALSE
    /\ retOrd = "none"
    /\ panicked = FALSE

\* A construction path returns a container to a caller that holds none.
CanConstruct ==
    /\ op = "none"
    /\ ~live

Constructed(path, cont, its, st) ==
    /\ c' = cont
    /\ live' = TRUE
    /\ origin' = path
    /\ items' = its
    /\ sset' = st
    /\ op' = path
    /\ lastIterRef' = <<>>
    /\ idx' = 0
    /\ NoOperand
    /\ NoResult

New ==
    /\ CanConstruct
    /\ Constructed("new", new, <<>>, {})

Default ==
    /\ CanConstruct
    /\ Constructed("default", default, <<>>, {})

FromIter ==
    /\ CanConstruct
    /\ \E iter \in Inputs : Constructed("from_iter", from_iter(iter), iter, {})

FromVec ==
    /\ CanConstruct
    /\ \E v \in Inputs : Constructed("from_Vec", from_Vec(v), v, {})

FromBTreeSet ==
    /\ CanConstruct
    /\ \E t \in Sets : Constructed("from_BTreeSet", from_BTreeSet(t), <<>>, t)

Decode ==
    /\ CanConstruct
    /\ \E d \in Payloads : Constructed("decode", decode(d), d.elts, {})

\* A read borrows the container (&self): c and its provenance stay as they are.
CanRead ==
    /\ op = "none"
    /\ live

Read(name) ==
    /\ op' = name
    /\ UNCHANGED <<c, live, origin, items, sset, lastIterRef>>

\* A read with no operand other than self.
Unary(name) ==
    /\ Read(name)
    /\ idx' = 0
    /\ NoOperand

AsSlice ==
    /\ CanRead
    /\ Unary("as_slice")
    /\ Returns(as_slice(c), <<>>, FALSE, "none", FALSE)

LenOp ==
    /\ CanRead
    /\ Unary("len")
    /\ Returns(<<>>, <<len(c)>>, FALSE, "none", FALSE)

IsEmpty ==
    /\ CanRead
    /\ Unary("is_empty")
    /\ Returns(<<>>, <<>>, is_empty(c), "none", FALSE)

DerefOp ==
    /\ CanRead
    /\ Unary("deref")
    /\ Returns(deref(c), <<>>, FALSE, "none", FALSE)

\* Variant: the by-reference iteration drains the container.
IterRef_draining ==
    /\ CanRead
    /\ op' = "into_iter_ref"
    /\ c' = [v |-> <<>>]
    /\ idx' = 0
    /\ NoOperand
    /\ Returns(into_iter_ref(c), <<>>, FALSE, "none", FALSE)
    /\ UNCHANGED <<live, origin, items, sset, lastIterRef>>

IterRef ==
    /\ CanRead
    /\ Unary("into_iter_ref")
    /\ Returns(into_iter_ref(c), <<>>, FALSE, "none", FALSE)

EncodeOp ==
    /\ CanRead
    /\ Unary("encode")
    /\ Returns(encode(c).elts, <<encode(c).len>>, FALSE, "none", FALSE)

HashOp ==
    /\ CanRead
    /\ Unary("hash")
    /\ Returns(hash(c), <<>>, FALSE, "none", FALSE)

\* c[i]: a panic unwinds out of the call; the borrowed container is untouched.
IndexOp ==
    /\ CanRead
    /\ \E i \in Positions :
        /\ Read("index")
        /\ idx' = i
        /\ NoOperand
        /\ Returns(<<>>, index(c, i).val, FALSE, "none", index(c, i).panic)

\* The containers a comparison can be given as its right-hand side.
OperandPaths == {"from_iter", "decode"}

Build(path, input) ==
    IF path = "from_iter" THEN from_iter(input)
    ELSE decode([len |-> Len(input), elts |-> input])

Binary(name, path, input) ==
    /\ Read(name)
    /\ idx' = 0
    /\ other' = Build(path, input)
    /\ y' = input
    /\ otherPath' = path

\* c == other
EqOp ==
    /\ CanRead
    /\ \E path \in OperandPaths, input \in Inputs :
        /\ Binary("eq", path, input)
        /\ Returns(<<>>, <<>>, eq(c, Build(path, input)), "none", FALSE)

\* c.cmp(&other)
CmpOp ==
    /\ CanRead
    /\ \E path \in OperandPaths, input \in Inputs :
        /\ Binary("cmp", path, input)
        /\ Returns(<<>>, <<>>, FALSE, cmp(c, Build(path, input)), FALSE)

\* By-value iteration takes self: the caller no longer holds the container.
IntoIter ==
    /\ CanRead
    /\ op' = "into_iter"
    /\ live' = FALSE
    /\ idx' = 0
    /\ NoOperand
    /\ Returns(into_iter(c), <<>>, FALSE, "none", FALSE)
    /\ UNCHANGED <<c, origin, items, sset, lastIterRef>>

\* The caller takes the result of the call and is ready to make the next one;
\* it keeps what a by-reference iteration yielded.
Continue ==
    /\ op # "none"
    /\ op' = "none"
    /\ lastIterRef' = IF op = "into_iter_ref" THEN <<retSeq>> ELSE lastIterRef
    /\ idx' = 0
    /\ NoOperand
    /\ NoResult
    /\ UNCHANGED <<c, live, origin, items, sset>>

Next ==
    \/ New
    \/ Default
    \/ FromIter
    \/ FromVec
    \/ FromBTreeSet
    \/ Decode
    \/ AsSlice
    \/ LenOp
    \/ IsEmpty
    \/ DerefOp
    \/ IterRef
    \/ EncodeOp
    \/ HashOp
    \/ IndexOp
    \/ EqOp
    \/ CmpOp
    \/ IntoIter
    \/ Continue

Spec == Init /\ [][Next]_vars

----------------------------------------------------------------------------
(* Vocabulary of the properties.                                           *)

\* Non-decreasing: every adjacent pair is in order.
IsSorted(s) == \A i \in 1..(Len(s) - 1) : s[i] <= s[i + 1]

\* Strictly increasing: every adjacent pair is in order and distinct.
IsStrictlySorted(s) == \A i \in 1..(Len(s) - 1) : s[i] < s[i + 1]

\* The multiplicity of x in s.
Count(s, x) == Cardinality({i \in 1..Len(s) : s[i] = x})

SameMultiset(s, t) == \A x \in Values : Count(s, x) = Count(t, x)

Elements(s) == {s[i] : i \in 1..Len(s)}

\* The reference ascending sort: each value in turn, as often as it occurs.
RECURSIVE RefSortFrom(_, _)
RefSortFrom(s, x) ==
    IF x > MaxVal THEN <<>>
    ELSE [i \in 1..Count(s, x) |-> x] \o RefSortFrom(s, x + 1)

RefSort(s) == RefSortFrom(s, 0)

\* l is before r in the lexicographic order: at the first position where they
\* differ l holds the smaller element, or l is a proper prefix of r.
LexLess(l, r) ==
    \E k \in 1..(Len(l) + 1) :
        /\ \A i \in 1..(k - 1) : i <= Len(r) /\ l[i] = r[i]
        /\ \/ k = Len(l) + 1 /\ Len(r) >= k
           \/ k <= Len(l) /\ k <= Len(r) /\ l[k] < r[k]

LexOrdering(l, r) ==
    IF LexLess(l, r) THEN "Less"
    ELSE IF LexLess(r, l) THEN "Greater" ELSE "Equal"

\* The construction paths of the public API (decoding is not one of them).
SortingPaths == {"new", "default", "from_iter", "from_Vec", "from_BTreeSet"}

\* The public read operations.
ReadOps == {"as_slice", "len", "is_empty", "deref", "index", "into_iter_ref",
            "eq", "cmp", "hash"}

IsMin(x, s) == x \in Elements(s) /\ \A e \in Elements(s) : x <= e

IsMax(x, s) == x \in Elements(s) /\ \A e \in Elements(s) : x >= e

----------------------------------------------------------------------------
(* Properties.                                                             *)

\* C1: a container that came from new, Default, from_iter, From<Vec> or
\* From<BTreeSet> is sorted in non-decreasing order (every adjacent pair
\* satisfies element[i] <= element[i+1]), when it is returned and after every
\* later read operation.
C1_Sortedness == origin \in SortingPaths => IsSorted(c.v)

\* An unsorted input went through a sorting construction path and the
\* container has since been read.
C1_Witness ==
    /\ origin \in {"from_iter", "from_Vec"}
    /\ ~IsSorted(items)
    /\ Len(c.v) = MaxLen
    /\ op = "deref"

\* C2: by-value iteration of from_iter(items) yields the reference ascending
\* sort of items, a permutation that keeps every multiplicity, and len() is
\* the number of input items.
C2_ContentPreserved ==
    origin = "from_iter" =>
        /\ op = "into_iter" =>
            /\ retSeq = RefSort(items)
            /\ IsSorted(retSeq)
            /\ SameMultiset(retSeq, items)
            /\ Len(retSeq) = Len(items)
        /\ op = "len" => retNat = <<Len(items)>>

\* An unsorted input with a repeated element was built by from_iter and
\* iterated by value.
C2_Witness ==
    /\ origin = "from_iter"
    /\ op = "into_iter"
    /\ ~IsSorted(items)
    /\ \E x \in Values : Count(items, x) >= 2

\* C3: from_iter(x) == from_iter(y) exactly when x and y are the same
\* multiset; == is same length and equal elements at every position.
C3_EqualIffSameMultiset ==
    op = "eq" =>
        /\ retBool <=> (/\ Len(c.v) = Len(other.v)
                        /\ \A i \in 1..Len(c.v) : c.v[i] = other.v[i])
        /\ (origin = "from_iter" /\ otherPath = "from_iter") =>
               (retBool <=> SameMultiset(items, y))

\* Two different orderings of one multiset were built and compared equal.
C3_Witness ==
    /\ op = "eq"
    /\ origin = "from_iter"
    /\ otherPath = "from_iter"
    /\ items # y
    /\ Len(items) >= 2
    /\ SameMultiset(items, y)
    /\ retBool

C5_OrderedSetConversion ==
    origin = "from_BTreeSet" =>
        /\ IsStrictlySorted(c.v)
        /\ Len(c.v) = Cardinality(sset)
        /\ Elements(c.v) = sset
        /\ c.v = Vec_from_iter(BTreeSet_into_iter(sset))
        /\ op = "len" => retNat = <<Cardinality(sset)>>

\* A set of several elements was converted and its length was read.
C5_Witness ==
    /\ origin = "from_BTreeSet"
    /\ Cardinality(sset) >= 2
    /\ op = "len"

C7_ReadsChangeNothing ==
    /\ [][op' \in ReadOps => (c' = c /\ live')]_vars
    /\ [](op = "into_iter_ref" /\ lastIterRef # <<>> => retSeq = lastIterRef[1])

\* A non-empty container was iterated by reference a second time.
C7_Witness ==
    /\ op = "into_iter_ref"
    /\ lastIterRef # <<>>
    /\ Len(c.v) >= 2
    /\ live

\* C8: From<Vec>(v) == from_iter(v): same length, same element at every
\* position.
C8_FromVecAsFromIter ==
    (op = "eq" /\ origin = "from_Vec" /\ otherPath = "from_iter" /\ y = items) =>
        /\ retBool
        /\ Len(c.v) = Len(other.v)
        /\ \A i \in 1..Len(c.v) : c.v[i] = other.v[i]

\* An unsorted sequence was handed to both constructors and the results
\* were compared.
C8_Witness ==
    /\ op = "eq"
    /\ origin = "from_Vec"
    /\ otherPath = "from_iter"
    /\ y = items
    /\ ~IsSorted(items)

\* C9: the container of new() or Default has length 0, is empty, has an
\* empty slice, yields nothing when iterated, and panics when indexed at 0;
\* for every container is_empty() is true exactly when len() is 0.
C9_EmptyContainer ==
    /\ origin \in {"new", "default"} =>
        /\ op = "len" => retNat = <<0>>
        /\ op = "is_empty" => retBool
        /\ op \in {"as_slice", "into_iter", "into_iter_ref"} => retSeq = <<>>
        /\ (op = "index" /\ idx = 0) => (panicked /\ retNat = <<>>)
    /\ op = "is_empty" => (retBool <=> len(c) = 0)

\* The container of new() was indexed at position 0 and the call panicked.
C9_Witness ==
    /\ origin = "new"
    /\ op = "index"
    /\ idx = 0
    /\ panicked

\* C10: cmp is the lexicographic order of the stored sequences (the first
\* differing position decides, a proper prefix is smaller); it is Equal
\* exactly when the containers are ==, and == containers hash alike.
C10_LexicographicOrder ==
    op = "cmp" =>
        /\ retOrd = LexOrdering(c.v, other.v)
        /\ (retOrd = "Equal") <=> eq(c, other)
        /\ (retOrd = "Less") <=> (cmp(other, c) = "Greater")
        /\ eq(c, other) => hash(c) = hash(other)

\* The longer container compared Less: an element decided, not the length.
C10_Witness ==
    /\ op = "cmp"
    /\ retOrd = "Less"
    /\ Len(c.v) > Len(other.v)
    /\ Len(other.v) > 0

====
